---- MODULE Spec2Model ----
(***************************************************************************)
(* The webhook reconciliation engine of src/src/webhook-sync.ts:           *)
(* syncWebhooks lists the account's repositories page by page, then        *)
(* runWithConcurrency drives min(CONCURRENCY, n) workers over a shared     *)
(* queue; each worker reconciles one repository at a time (hook list, then *)
(* POST or DELETE).  The JavaScript run is single-threaded: code between   *)
(* two awaits is atomic.  The model keeps the suspension points at which   *)
(* workers interleave: the hook-list request, the write request, and the   *)
(* await of fn(item) in the worker loop (callbacks resume in the order in  *)
(* which their promises settled).  handleSyncWebhooks of                   *)
(* src/src/discord.ts, the endpoint in front of syncWebhooks, is modelled  *)
(* by the steps Handle and Respond around the run.                         *)
(***************************************************************************)
EXTENDS Integers, Sequences, FiniteSets, TLC

\* ------------------------------------------------------------------ bounds
MaxRepos == 3          \* longest repository listing the remote returns
MaxFaults == 2         \* failing responses the remote gives over one behaviour
PerPage == 2           \* repositories per listing page (per_page, scaled down)
MaxQueued == 1         \* SpecQueue: repositories beyond one per worker
MaxQueueFaults == 1    \* SpecQueue: rate-limited responses over one behaviour
MaxReposTwice == 2     \* SpecTwice: longest listing
MaxTwiceFaults == 1    \* SpecTwice: failing responses over one behaviour
MaxAllFaults == 1      \* SpecAllFaults: failing responses over one behaviour
MaxQueueErrors == 2    \* SpecQueueErrors: failing responses over one behaviour
MaxWidthFaults == 1    \* SpecWidths: failing responses over one behaviour
MaxEndpointFaults == 1 \* SpecEndpoint: failing responses over one behaviour
MaxTransportFaults == 1 \* SpecQueueTransport: failing responses over one behaviour
MaxReposPair == 2      \* SpecPair: longest listing
MaxPairFaults == 2     \* SpecPair: failing responses over one behaviour
MaxReposCycle == 2     \* SpecCycle: repositories listed before the link cycle
MaxCycleLen == 2       \* SpecCycle: pages on the link cycle
MaxCycleFaults == 1    \* SpecCycle: failing responses over one behaviour
MaxReposTwin == 2      \* SpecTwin: longest listing
MaxTwinFaults == 1     \* SpecTwin: failing responses over one behaviour
MaxLiveFaults == 1     \* SpecLive: failing responses over one behaviour
MaxStartTones == 2     \* SpecHolo: tones of TONE_PATTERNS the initial history may hold
MaxStartLen == 6       \* SpecHolo: longest initial history

\* --------------------------------------------------------------- constants
CONCURRENCY == 5
MAX_PAGES == 50
HistoryLimit == 5

RepoNames == <<"o/r1", "o/r2", "o/r3", "o/r4", "o/r5", "o/r6", "o/r7", "o/r8">>
WebhookUrl == "https://workers.example.com/webhook"
OtherUrl == "https://elsewhere.example.com/hook"
RateLimitedRepo == "(rate-limited)"
COMPARISON_KEY == "holo-ci-workers-token-comparison"
ExpectedToken == "test-notify-token"

Workers == 1..CONCURRENCY

Min(a, b) == IF a < b THEN a ELSE b

\* ------------------------------------------------------------------- types
\* GitHubHook: {id, config.url}
Hook(id, u) == [id |-> id, url |-> u]
NoHook == Hook(0, "")

\* Errors: the value a promise rejects with.
NoError == [name |-> "none", message |-> <<>>, retryAfter |-> "null"]

GitHubRateLimitError(retryAfter) ==
  [name |-> "GitHubRateLimitError",
   message |-> <<"GitHub API rate limit exceeded">>,
   retryAfter |-> retryAfter]

Error(text, status) ==
  [name |-> "Error", message |-> <<text, status>>, retryAfter |-> "null"]

\* What a rejected fetchFn promise carries (a transport failure).
TransportError == [name |-> "TypeError", message |-> <<"fetch failed">>, retryAfter |-> "null"]

\* What `await response.json()` rejects with when the body is not JSON.
SyntaxError == [name |-> "SyntaxError", message |-> <<"Unexpected token">>, retryAfter |-> "null"]

\* WebhookSyncResult
EmptyResult == [created |-> <<>>, deleted |-> <<>>, unchanged |-> <<>>, errors |-> <<>>]

\* The Worker's environment; "" is an unset binding.
Env(notifyToken, githubToken, webhookUrl) ==
  [NOTIFY_API_TOKEN |-> notifyToken, GITHUB_TOKEN |-> githubToken, WEBHOOK_URL |-> webhookUrl]

\* A header value as the sequence of its parts; <<>> is null (no header).
NoHeader == <<>>

\* The Response of the endpoint: its status and its body, a text, a JSON error
\* with a message, or the JSON of a result.
Answer(status, kind, message, res) ==
  [status |-> status, kind |-> kind, message |-> message, result |-> res]

NoAnswer == Answer(0, "none", <<>>, EmptyResult)

\* `Bearer <token>` as an Authorization header.
BearerHeader(token) == <<"Bearer", " ", token>>

\* The Authorization headers a request may carry: none, the expected token,
\* another token, the expected token followed by more, another scheme, a
\* lower-case scheme, and the scheme without a token.
Headers ==
  { NoHeader,
    BearerHeader(ExpectedToken),
    BearerHeader("wrong-token"),
    <<"Bearer", " ", ExpectedToken, "x">>,
    <<"Basic", " ", ExpectedToken>>,
    <<"bearer", " ", ExpectedToken>>,
    <<"Bearer">> }

\* The environments of the Worker: GITHUB_TOKEN and WEBHOOK_URL set or not.
Envs == { Env(ExpectedToken, g, u) : g \in {"", "ghp_test"}, u \in {"", WebhookUrl} }

\* ---------------------------------------------------------------- remote
\* A response: net = FALSE is a rejected fetch; "null" is an absent header; the
\* body is "json" when response.json() can decode it.
Response(net, status, remaining, retryAfter) ==
  [net |-> net, status |-> status, remaining |-> remaining, retryAfter |-> retryAfter,
   body |-> "json"]

SuccessResponse(method) ==
  Response(TRUE,
           CASE method = "POST" -> 201 [] method = "DELETE" -> 204 [] OTHER -> 200,
           "4999", "null")

TooManyRequests == Response(TRUE, 429, "null", "60")

\* A validation failure: not a success, not a rate limit.
UnprocessableResponse == Response(TRUE, 422, "4999", "null")

\* A fetch whose promise rejects: no response is delivered.
RejectedFetch == Response(FALSE, 0, "null", "null")

FaultResponses ==
  { TooManyRequests,
    Response(TRUE, 403, "0", "null"),
    Response(TRUE, 403, "null", "null"),
    UnprocessableResponse,
    RejectedFetch }

NotFoundResponse == Response(TRUE, 404, "4999", "null")

\* No response at all.
NoResponse == [Response(FALSE, 0, "null", "null") EXCEPT !.body = "none"]

\* A 200 whose body response.json() cannot decode.
UndecodableBody == [Response(TRUE, 200, "4999", "null") EXCEPT !.body = "text"]

\* A 403 whose X-RateLimit-Remaining header is not "0".
ForbiddenResponse == Response(TRUE, 403, "1", "null")

AllFaultResponses == FaultResponses \cup {UndecodableBody, ForbiddenResponse}

IsFault(resp) == resp \in AllFaultResponses

\* The four kinds of repository the remote holds.
Kinds ==
  << [archived |-> FALSE, hooks |-> <<>>],
     [archived |-> TRUE,  hooks |-> <<Hook(41, OtherUrl), Hook(42, WebhookUrl)>>],
     [archived |-> FALSE, hooks |-> <<Hook(41, OtherUrl), Hook(42, WebhookUrl)>>],
     [archived |-> TRUE,  hooks |-> <<Hook(41, OtherUrl)>>] >>

\* Repositories that hold two hooks of the desired URL.
TwinKinds ==
  << [archived |-> TRUE,  hooks |-> <<Hook(41, WebhookUrl), Hook(42, WebhookUrl)>>],
     [archived |-> FALSE, hooks |-> <<Hook(41, WebhookUrl), Hook(42, WebhookUrl)>>] >>

NameIndex(nm) == CHOOSE k \in 1..Len(RepoNames) : RepoNames[k] = nm

KindOf(nm, rot) == Kinds[((NameIndex(nm) - 1 + rot) % 4) + 1]

\* The listing cut into pages of PerPage entries, each with its rel="next" link
\* (0: no link).
NumPages(listing) ==
  IF Len(listing) = 0 THEN 1 ELSE (Len(listing) + PerPage - 1) \div PerPage

PagesOf(listing) ==
  [p \in 1..NumPages(listing) |->
     [data |-> SubSeq(listing, (p - 1) * PerPage + 1, Min(p * PerPage, Len(listing))),
      next |-> IF p < NumPages(listing) THEN p + 1 ELSE 0]]

Listing(n) == [i \in 1..n |-> RepoNames[i]]

\* The pages of a listing whose last rel="next" link leads into a ring of
\* `ring` empty pages, each linking to the next and the last back to the first.
CyclicPagesOf(listing, ring) ==
  LET n == NumPages(listing) IN
  [p \in 1..(n + ring) |->
     IF p <= n
     THEN [data |-> PagesOf(listing)[p].data, next |-> p + 1]
     ELSE [data |-> <<>>, next |-> IF p < n + ring THEN p + 1 ELSE n + 1]]

DistinctListings(maxLen) == { Listing(n) : n \in 0..maxLen }

\* Listings in which the first repository comes back a second time, as when a
\* repository moves to the next page between two page requests.
DupListings == { Append(Listing(n), RepoNames[1]) : n \in 1..(MaxReposTwice - 1) }

VARIABLES
  phase,        \* "listing" | "running" | "returned" | "thrown": where syncWebhooks is
                \* ("handling" | "answered": its endpoint; "idle": not called)
  url,          \* fetchAllUserRepos: the page to request next (0: null)
  page,         \* fetchAllUserRepos: pages requested so far
  repos,        \* fetchAllUserRepos: the accumulator; then the items of the run
  queue,        \* runWithConcurrency: the shared queue (indices into repos)
  abortError,   \* runWithConcurrency: the captured error
  wpc,          \* per worker: "idle" | "list" | "write" | "settled" | "done"
  witem,        \* per worker: the item it reconciles (index into repos, 0: none)
  whook,        \* per worker: the id of the hook its DELETE addresses (0: a POST)
  settled,      \* fn(item) promises settled and not yet resumed, in settling order
  result,       \* syncWebhooks: the WebhookSyncResult under construction
  thrown,       \* the error syncWebhooks threw
  pages,        \* remote: the pages of the repository listing
  archived,     \* remote: name -> archived flag
  hooks,        \* remote: name -> the repository's hooks, in list order
  faultKinds,   \* remote: the failing responses it may give
  budget,       \* remote: how many more failing responses it may give
  run,          \* which run of syncWebhooks this is (1 or 2)
  firstErrors,  \* the errors list the first run returned
  calls,        \* history: per item, the requests issued for it and their answers
  raised,       \* history: items whose per-item function raised, in raising order
  pendingAtRaise,   \* history: items in the queue when a per-item function raised
  clearedAtAbort,   \* history: items in the queue when a catch block cleared it
  inFlightAtAbort,  \* history: items other workers had in flight when the queue was cleared
  hooks0,           \* history: the remote's hooks when the run began
  listResponse,     \* history: the response to the last page request
  authorization,    \* handleSyncWebhooks: the request's Authorization header
  env,              \* handleSyncWebhooks: the Worker's environment
  answer,           \* handleSyncWebhooks: the Response it returned
  toneHistory,      \* convertToHolo: the `history` array its caller passes
  selectedTone,     \* convertToHolo: the tone the call in progress selected
  holoPc,           \* convertToHolo: "idle" | "awaiting" (the messages.create call)
  startLen,         \* history: the length of toneHistory before the first call
  lastTone          \* history: the tone the last successful call selected

vars == <<phase, url, page, repos, queue, abortError, wpc, witem, whook, settled,
          result, thrown, pages, archived, hooks, faultKinds, budget, run,
          firstErrors, calls, raised, pendingAtRaise, clearedAtAbort, inFlightAtAbort,
          hooks0, listResponse, authorization, env, answer,
          toneHistory, selectedTone, holoPc, startLen, lastTone>>

holo == <<toneHistory, selectedTone, holoPc, startLen, lastTone>>

sync == <<phase, url, page, repos, queue, abortError, wpc, witem, whook, settled,
          result, thrown, pages, archived, hooks, faultKinds, budget, run,
          firstErrors, calls, raised, pendingAtRaise, clearedAtAbort, inFlightAtAbort,
          hooks0, listResponse, authorization, env, answer>>

handler == <<authorization, env, answer>>

history == <<raised, pendingAtRaise, clearedAtAbort, inFlightAtAbort, hooks0>>

\* ------------------------------------------------------- pure functions
\* response.ok
ResponseOk(resp) == resp.status \in 200..299

\* Mutant: every 403 counts as a rate limit, whatever its headers.
throwIfRateLimited_Any403(resp) ==
  IF resp.status = 429 \/ resp.status = 403
  THEN GitHubRateLimitError(resp.retryAfter)
  ELSE NoError

\* throwIfRateLimited: the error it throws, NoError when it returns.
throwIfRateLimited(resp) ==
  IF resp.status = 429 \/ (resp.status = 403 /\ resp.remaining = "0")
  THEN GitHubRateLimitError(resp.retryAfter)
  ELSE NoError

\* Mutant: the success check comes before the rate-limit check.
RequestError_OkFirst(resp, text) ==
  IF ~resp.net THEN TransportError
  ELSE IF ~ResponseOk(resp) THEN Error(text, resp.status)
  ELSE throwIfRateLimited(resp)

\* One request site: `await fetchFn(..)`, throwIfRateLimited, `if (!response.ok)
\* throw new Error(text + status)`.  The error raised there, NoError when none.
RequestError(resp, text) ==
  IF ~resp.net THEN TransportError
  ELSE IF throwIfRateLimited(resp) # NoError THEN throwIfRateLimited(resp)
  ELSE IF ~ResponseOk(resp) THEN Error(text, resp.status)
  ELSE NoError

\* `await response.json()`: the error it rejects with, NoError when it decodes.
JsonError(resp) == IF resp.body = "json" THEN NoError ELSE SyntaxError

\* Mutant: each page replaces the pages before it.
PushAll_Replace(acc, data) == data

\* repos.push(...data)
PushAll(acc, data) == acc \o data

\* Mutant: the body is taken as decoded whatever it is.
FetchError_NoDecode(resp, text) == RequestError(resp, text)

\* A request site followed by `await response.json()`.
FetchError(resp, text) ==
  IF RequestError(resp, text) # NoError THEN RequestError(resp, text) ELSE JsonError(resp)

\* Mutant: `hooks[0] ?? null`, the first hook whatever its URL.
FindHook_First(hs, webhookUrl) == IF hs # <<>> THEN hs[1] ELSE NoHook

\* Mutant: the last hook of the list, whatever its URL.
FindHook_Last(hs, webhookUrl) == IF hs # <<>> THEN hs[Len(hs)] ELSE NoHook

\* hooks.find((h) => h.config.url === webhookUrl) ?? null
FindHook(hs, webhookUrl) ==
  IF \E k \in 1..Len(hs) : hs[k].url = webhookUrl
  THEN hs[CHOOSE k \in 1..Len(hs) :
            /\ hs[k].url = webhookUrl
            /\ \A j \in 1..(k - 1) : hs[j].url # webhookUrl]
  ELSE NoHook

\* Mutant: the hook list is searched whatever the response was.
findMatchingHook_IgnoreError(resp, hs, webhookUrl) ==
  [error |-> NoError, hook |-> FindHook(hs, webhookUrl)]

\* findMatchingHook, from the response to its hook-list request on.
findMatchingHook(resp, hs, webhookUrl) ==
  LET e == FetchError(resp, "Failed to list hooks")
  IN [error |-> e, hook |-> IF e = NoError THEN FindHook(hs, webhookUrl) ELSE NoHook]

\* What one resumption of the per-item function ends in: the next request
\* ("write"), or the settling of its promise ("resolve" after an optional push
\* to one list of the result, "reject" with an error).
Step(next, method, hookId, push, error) ==
  [next |-> next, method |-> method, hookId |-> hookId, push |-> push, error |-> error]

\* Mutant: the catch block records every error, the rate limit too.
CatchInItem_Swallow(error) == Step("resolve", "", 0, "errors", error)

\* Mutant: the catch block records plain Errors only and rethrows the rest.
CatchInItem_OnlyError(error) ==
  IF error.name = "Error"
  THEN Step("resolve", "", 0, "errors", error)
  ELSE Step("reject", "", 0, "none", error)

\* Mutant: the catch block records the error before it tests its class.
CatchInItem_RecordFirst(error) ==
  IF error.name = "GitHubRateLimitError"
  THEN Step("reject", "", 0, "errors", error)
  ELSE Step("resolve", "", 0, "errors", error)

\* Mutant: the catch block rethrows every error.
CatchInItem_Rethrow(error) == Step("reject", "", 0, "none", error)

\* The catch block of the per-item function.
CatchInItem(error) ==
  IF error.name = "GitHubRateLimitError"
  THEN Step("reject", "", 0, "none", error)
  ELSE Step("resolve", "", 0, "errors", error)

\* Mutant: the test of `existing` is inverted.
ensureWebhookExists_Inverted(found) ==
  IF found.error # NoError THEN CatchInItem(found.error)
  ELSE IF found.hook = NoHook THEN Step("resolve", "", 0, "unchanged", NoError)
  ELSE Step("write", "POST", 0, "none", NoError)

\* Mutant: the test of `existing` is missing.
ensureWebhookExists_NoCheck(found) ==
  IF found.error # NoError THEN CatchInItem(found.error)
  ELSE Step("write", "POST", 0, "none", NoError)

\* ensureWebhookExists up to its POST request, and the caller's push.
ensureWebhookExists(found) ==
  IF found.error # NoError THEN CatchInItem(found.error)
  ELSE IF found.hook # NoHook THEN Step("resolve", "", 0, "unchanged", NoError)
  ELSE Step("write", "POST", 0, "none", NoError)

\* Mutant: the status of the POST response is not tested.
ensureWebhookExistsPosted_NoOkCheck(resp) ==
  LET e == IF ~resp.net THEN TransportError ELSE throwIfRateLimited(resp)
  IN IF e # NoError THEN CatchInItem(e)
     ELSE Step("resolve", "", 0, "created", NoError)

\* Mutant: a POST that failed without a rate limit is issued again.
ensureWebhookExistsPosted_Retry(resp) ==
  LET e == RequestError(resp, "Failed to create hook")
  IN IF e = NoError THEN Step("resolve", "", 0, "created", NoError)
     ELSE IF e.name = "GitHubRateLimitError" THEN CatchInItem(e)
     ELSE Step("write", "POST", 0, "none", NoError)

\* Mutant: a POST that failed without a rate limit is recorded nowhere.
ensureWebhookExistsPosted_Silent(resp) ==
  LET e == RequestError(resp, "Failed to create hook")
  IN IF e = NoError THEN Step("resolve", "", 0, "created", NoError)
     ELSE IF e.name = "GitHubRateLimitError" THEN CatchInItem(e)
     ELSE Step("resolve", "", 0, "none", NoError)

\* ensureWebhookExists from the response to its POST request on.
ensureWebhookExistsPosted(resp) ==
  LET e == RequestError(resp, "Failed to create hook")
  IN IF e # NoError THEN CatchInItem(e)
     ELSE Step("resolve", "", 0, "created", NoError)

\* Mutant: `removed` is not tested before the push to deleted.
removeWebhookIfExists_AlwaysPush(found) ==
  IF found.error # NoError THEN CatchInItem(found.error)
  ELSE IF found.hook = NoHook THEN Step("resolve", "", 0, "deleted", NoError)
  ELSE Step("write", "DELETE", found.hook.id, "none", NoError)

\* Mutant: the test of `hook` is missing.
removeWebhookIfExists_NoGuard(found) ==
  IF found.error # NoError THEN CatchInItem(found.error)
  ELSE Step("write", "DELETE", found.hook.id, "none", NoError)

\* removeWebhookIfExists up to its DELETE request, and the caller's push.
removeWebhookIfExists(found) ==
  IF found.error # NoError THEN CatchInItem(found.error)
  ELSE IF found.hook = NoHook THEN Step("resolve", "", 0, "none", NoError)
  ELSE Step("write", "DELETE", found.hook.id, "none", NoError)

\* removeWebhookIfExists from the response to its DELETE request on.
removeWebhookIfExistsDeleted(resp) ==
  LET e == RequestError(resp, "Failed to delete hook")
  IN IF e # NoError THEN CatchInItem(e)
     ELSE Step("resolve", "", 0, "deleted", NoError)

\* The per-item function of syncWebhooks after the hook-list response.
reconcileListed(repo, found) ==
  IF repo.archived THEN removeWebhookIfExists(found) ELSE ensureWebhookExists(found)

\* The per-item function of syncWebhooks after the response to its write.
reconcileWritten(repo, resp) ==
  IF repo.archived THEN removeWebhookIfExistsDeleted(resp)
  ELSE ensureWebhookExistsPosted(resp)

\* Mutant: the `else` before the push to unchanged is missing.
Push_MissingElse(res, repo, step) ==
  CASE step.push = "created"   ->
         [res EXCEPT !.created = Append(@, repo.full_name),
                     !.unchanged = Append(@, repo.full_name)]
    [] step.push = "deleted"   -> [res EXCEPT !.deleted = Append(@, repo.full_name)]
    [] step.push = "unchanged" -> [res EXCEPT !.unchanged = Append(@, repo.full_name)]
    [] step.push = "errors"    ->
         [res EXCEPT !.errors = Append(@, [repo |-> repo.full_name, error |-> step.error.message])]
    [] OTHER -> res

\* Mutant: a push replaces what the other workers pushed to the list.
Push_Overwrite(res, repo, step) ==
  CASE step.push = "created"   -> [res EXCEPT !.created = <<repo.full_name>>]
    [] step.push = "deleted"   -> [res EXCEPT !.deleted = <<repo.full_name>>]
    [] step.push = "unchanged" -> [res EXCEPT !.unchanged = <<repo.full_name>>]
    [] step.push = "errors"    ->
         [res EXCEPT !.errors = <<[repo |-> repo.full_name, error |-> step.error.message]>>]
    [] OTHER -> res

\* result.<list>.push(..) as the step asks.
Push(res, repo, step) ==
  CASE step.push = "created"   -> [res EXCEPT !.created = Append(@, repo.full_name)]
    [] step.push = "deleted"   -> [res EXCEPT !.deleted = Append(@, repo.full_name)]
    [] step.push = "unchanged" -> [res EXCEPT !.unchanged = Append(@, repo.full_name)]
    [] step.push = "errors"    ->
         [res EXCEPT !.errors = Append(@, [repo |-> repo.full_name, error |-> step.error.message])]
    [] OTHER -> res

\* Mutant: the catch block of syncWebhooks rethrows whatever it catches.
Outcome_ThrowAll(err, res) ==
  IF err = NoError THEN [phase |-> "returned", result |-> res, thrown |-> NoError]
  ELSE [phase |-> "thrown", result |-> res, thrown |-> err]

\* Mutant: after a rate limit a fresh result is returned, holding the
\* "(rate-limited)" entry only.
Outcome_Fresh(err, res) ==
  IF err = NoError THEN [phase |-> "returned", result |-> res, thrown |-> NoError]
  ELSE [phase |-> "returned",
        result |-> [EmptyResult EXCEPT !.errors =
                      <<[repo |-> RateLimitedRepo, error |-> err.message]>>],
        thrown |-> NoError]

\* The catch block of syncWebhooks around runWithConcurrency, and `return result`.
\* [phase, result, thrown] once every worker has returned.
Outcome(err, res) ==
  IF err = NoError THEN [phase |-> "returned", result |-> res, thrown |-> NoError]
  ELSE IF err.name = "GitHubRateLimitError"
  THEN [phase |-> "returned",
        result |-> [res EXCEPT !.errors =
                      Append(@, [repo |-> RateLimitedRepo, error |-> err.message])],
        thrown |-> NoError]
  ELSE [phase |-> "thrown", result |-> res, thrown |-> err]

\* Mutant: one worker per unit of concurrency, however few items there are.
WorkerCount_All(concurrency, n) == concurrency

\* The number of workers: `Math.min(concurrency, queue.length)`.
WorkerCount(concurrency, n) == Min(concurrency, n)

\* Mutant: a worker returns after its first item.
WorkerContinues_Never(q, abort) == FALSE

\* The loop test of a worker: `while (queue.length > 0 && !abortError)`.
WorkerContinues(q, abort) == Len(q) > 0 /\ abort = NoError

\* Mutant: the first error caught is kept.
CapturedError_First(abort, error) == IF abort = NoError THEN error ELSE abort

\* The catch block of a worker: `abortError = error` (the last writer wins).
CapturedError(abort, error) == error

\* Mutant: the catch block leaves the queue as it is.
CaughtQueue_Keep(q) == q

\* The catch block of a worker: `queue.length = 0`.
CaughtQueue(q) == <<>>

\* Mutant: the run ends when the first worker returns.
AllReturned_Any(pcs) == \E w \in Workers : pcs[w] = "done"

\* Mutant: only the first worker is awaited.
AllReturned_First(pcs) == pcs[1] \in {"idle", "done"}

\* Mutant: five workers are awaited, however many were started.
AllReturned_AllFive(pcs) == \A w \in Workers : pcs[w] = "done"

\* Promise.all(workers) has resolved: no worker is suspended any more.
AllReturned(pcs) == \A w \in Workers : pcs[w] \in {"idle", "done"}

\* ------------------------------------------------------ the endpoint
\* authHeader.startsWith('Bearer ')
StartsWithBearer(authHeader) ==
  Len(authHeader) >= 2 /\ authHeader[1] = "Bearer" /\ authHeader[2] = " "

\* crypto.subtle.sign('HMAC', key, data): the digest, one per key and data.
Hmac(key, data) == <<"HMAC-SHA-256", key, data>>

\* verifyBearerToken of src/src/auth.ts: the digests of authHeader.slice(7) and
\* of the expected token are compared byte by byte.
verifyBearerToken(authHeader, expectedToken) ==
  IF authHeader = NoHeader \/ ~StartsWithBearer(authHeader) THEN FALSE
  ELSE Hmac(COMPARISON_KEY, SubSeq(authHeader, 3, Len(authHeader)))
         = Hmac(COMPARISON_KEY, <<expectedToken>>)

\* Mutant: the test of GITHUB_TOKEN and WEBHOOK_URL is missing.
EarlyAnswer_NoConfigCheck(authHeader, e) ==
  IF ~verifyBearerToken(authHeader, e.NOTIFY_API_TOKEN)
  THEN Answer(401, "text", <<"Unauthorized">>, EmptyResult)
  ELSE NoAnswer

\* handleSyncWebhooks before it calls syncWebhooks: the Response of an early
\* return, NoAnswer when it goes on.
EarlyAnswer(authHeader, e) ==
  IF ~verifyBearerToken(authHeader, e.NOTIFY_API_TOKEN)
  THEN Answer(401, "text", <<"Unauthorized">>, EmptyResult)
  ELSE IF e.GITHUB_TOKEN = "" \/ e.WEBHOOK_URL = ""
  THEN Answer(400, "error", <<"GITHUB_TOKEN and WEBHOOK_URL are required">>, EmptyResult)
  ELSE NoAnswer

\* Mutant: the catch block answers with a fixed message.
ErrorAnswer_Unknown(error) == Answer(500, "error", <<"Unknown error">>, EmptyResult)

\* The catch block of handleSyncWebhooks.
ErrorAnswer(error) == Answer(500, "error", error.message, EmptyResult)

\* Mutant: a result that holds errors is answered as a failure.
SuccessAnswer_FailOnErrors(res) ==
  IF res.errors # <<>>
  THEN Answer(500, "error", <<"Sync finished with errors">>, res)
  ELSE Answer(200, "success", <<>>, res)

\* handleSyncWebhooks after syncWebhooks returned.
SuccessAnswer(res) == Answer(200, "success", <<>>, res)

\* ------------------------------------------------------ convertToHolo
\* The eight tones of TONE_PATTERNS, in its order.
TONE_PATTERNS ==
  << "worried", "teasing", "encouraging", "matter-of-fact",
     "exasperated", "analytical", "surprised", "sympathetic" >>

\* No tone selected.
NoTone == ""

\* history.includes(tone)
Includes(h, tone) == \E k \in 1..Len(h) : h[k] = tone

\* TONE_PATTERNS.filter((tone) => !history.includes(tone))
AvailableTones(h) == SelectSeq(TONE_PATTERNS, LAMBDA tone : ~Includes(h, tone))

\* The tones selectedTone may be: an entry of availableTones at an index
\* Math.floor(Math.random() * length) when there is one, else one of
\* TONE_PATTERNS.
SelectableTones(h) ==
  IF Len(AvailableTones(h)) > 0
  THEN { AvailableTones(h)[k] : k \in 1..Len(AvailableTones(h)) }
  ELSE { TONE_PATTERNS[k] : k \in 1..Len(TONE_PATTERNS) }

\* Mutant: the history is never shortened.
Updated_NoShift(h, tone) == Append(h, tone)

\* history.push(selectedTone); if (history.length > 5) history.shift()
Updated(h, tone) ==
  IF Len(Append(h, tone)) > HistoryLimit THEN Tail(Append(h, tone)) ELSE Append(h, tone)

\* ----------------------------------------------------------- history
\* A request issued for an item: its method, the hook id it addresses, and once
\* answered the response and, for a hook list, the id of the matching hook.
Call(method, hookId) ==
  [method |-> method, hookId |-> hookId, done |-> FALSE,
   resp |-> Response(FALSE, 0, "null", "null"), match |-> 0]

\* The answer to the last request of an item.
Answered(cs, resp, match) ==
  [cs EXCEPT ![Len(cs)] = [@ EXCEPT !.done = TRUE, !.resp = resp, !.match = match]]

\* The requests of an item after a step of its per-item function: one more
\* when the step issues a request.
Issued(cs, step) ==
  IF step.next = "write" THEN Append(cs, Call(step.method, step.hookId)) ELSE cs

InFlight(pcs) == { w \in Workers : pcs[w] \in {"list", "write"} }

\* ---------------------------------------------------------------- remote
\* The hooks of a repository after a successful POST.
Created(hs) ==
  Append(hs, Hook(IF hs = <<>> THEN 43 ELSE hs[Len(hs)].id + 2, WebhookUrl))

\* The hooks of a repository after a successful DELETE of hook id.
Removed(hs, id) == SelectSeq(hs, LAMBDA h : h.id # id)

HasHook(hs, id) == \E k \in 1..Len(hs) : hs[k].id = id

\* The responses the remote may give to a request.
Responses(method, hs, id) ==
  (IF budget > 0 THEN faultKinds ELSE {}) \cup
    (IF method = "DELETE" /\ ~HasHook(hs, id)
     THEN {NotFoundResponse} ELSE {SuccessResponse(method)})

Spent(resp) == IF IsFault(resp) THEN budget - 1 ELSE budget

\* ------------------------------------------------------------------ Init
\* The remote side before the run: the pages the listing serves and, for every
\* repository on them, its archived flag and its hooks.
NamesOn(ps) == UNION { { ps[p].data[k] : k \in 1..Len(ps[p].data) } : p \in 1..Len(ps) }

InitRemoteOf(ps, kind) ==
  /\ pages = ps
  /\ archived = [nm \in NamesOn(ps) |-> kind[nm].archived]
  /\ hooks = [nm \in NamesOn(ps) |-> kind[nm].hooks]
  /\ hooks0 = hooks

InitRemote(ps, rot) == InitRemoteOf(ps, [nm \in NamesOn(ps) |-> KindOf(nm, rot)])

\* The local side of a call of syncWebhooks before its first request.
InitSync(kinds, maxFaults) ==
  /\ url = 1
  /\ page = 0
  /\ repos = <<>>
  /\ queue = <<>>
  /\ abortError = NoError
  /\ wpc = [w \in Workers |-> "idle"]
  /\ witem = [w \in Workers |-> 0]
  /\ whook = [w \in Workers |-> 0]
  /\ settled = <<>>
  /\ result = EmptyResult
  /\ thrown = NoError
  /\ faultKinds = kinds
  /\ budget = maxFaults
  /\ run = 1
  /\ firstErrors = <<>>
  /\ calls = <<>>
  /\ raised = <<>>
  /\ pendingAtRaise = {}
  /\ clearedAtAbort = {}
  /\ inFlightAtAbort = {}
  /\ listResponse = NoResponse
  /\ answer = NoAnswer

\* No call of convertToHolo, on an empty history.
HoloIdle ==
  /\ toneHistory = <<>>
  /\ selectedTone = NoTone
  /\ holoPc = "idle"
  /\ startLen = 0
  /\ lastTone = NoTone

InitLocal(kinds, maxFaults) == InitSync(kinds, maxFaults) /\ HoloIdle

InitRun(listings, kinds, maxFaults) ==
  /\ \E listing \in listings, rot \in 0..3 : InitRemote(PagesOf(listing), rot)
  /\ InitLocal(kinds, maxFaults)

\* syncWebhooks called directly, as the tests of webhook-sync.spec.ts do: its
\* first page request is in flight.
InitWith(listings, kinds, maxFaults) ==
  /\ InitRun(listings, kinds, maxFaults)
  /\ phase = "listing"
  /\ authorization = NoHeader
  /\ env = Env("", "", "")

Init == InitWith(DistinctListings(MaxRepos), FaultResponses, MaxFaults)

\* ------------------------------------------------------------- actions
\* runWithConcurrency(repos, CONCURRENCY, fn) up to the first suspension: each
\* of the min(concurrency, n) workers shifts an item and issues its hook-list
\* request; with no item, Promise.all([]) resolves and syncWebhooks returns.
StartRun(items) ==
  LET k == WorkerCount(CONCURRENCY, Len(items))
      pcs == [w \in Workers |-> IF w <= k THEN "list" ELSE "idle"]
      out == Outcome(NoError, result)
  IN /\ repos' = items
     /\ queue' = [j \in 1..(Len(items) - k) |-> k + j]
     /\ wpc' = pcs
     /\ witem' = [w \in Workers |-> IF w <= k THEN w ELSE 0]
     /\ calls' = [i \in 1..Len(items) |-> IF i <= k THEN <<Call("GET", 0)>> ELSE <<>>]
     /\ phase' = IF AllReturned(pcs) THEN out.phase ELSE "running"
     /\ UNCHANGED <<abortError, whook, settled, result, thrown>>

\* fetchAllUserRepos: the response to the request of one page.
\* A mutant of LoopContinues: the loop follows the next link without a ceiling.
LoopContinues_NoCeiling(next, count) == next # 0

\* The test of the listing loop, `while (url && page < MAX_PAGES)`.
LoopContinues(next, count) == next # 0 /\ count < MAX_PAGES

ListPage ==
  /\ phase = "listing"
  /\ \E resp \in Responses("GET", <<>>, 0) :
       /\ budget' = Spent(resp)
       /\ LET e == FetchError(resp, "Failed to fetch repos")
              data == [k \in 1..Len(pages[url].data) |->
                         [full_name |-> pages[url].data[k],
                          archived |-> archived[pages[url].data[k]]]]
              next == pages[url].next
          IN IF e # NoError
             THEN /\ phase' = "thrown"
                  /\ thrown' = e
                  /\ listResponse' = resp
                  /\ UNCHANGED <<url, page, repos, queue, abortError, wpc, witem, whook,
                                 settled, result, calls>>
             ELSE IF LoopContinues(next, page + 1)
             THEN /\ repos' = PushAll(repos, data)
                  /\ url' = next
                  /\ page' = page + 1
                  /\ listResponse' = resp
                  /\ UNCHANGED <<phase, thrown, queue, abortError, wpc, witem, whook,
                                 settled, result, calls>>
             ELSE /\ url' = next
                  /\ page' = page + 1
                  /\ StartRun(PushAll(repos, data))
                  /\ listResponse' = resp
  /\ UNCHANGED holo
  /\ UNCHANGED <<pages, archived, hooks, faultKinds, run, firstErrors, history, handler>>

\* The per-item function takes its step: it issues its write request, or pushes
\* to the result and its promise settles.
Take(w, step) ==
  LET i == witem[w] IN
  /\ result' = Push(result, repos[i], step)
  /\ IF step.next = "write"
     THEN /\ wpc' = [wpc EXCEPT ![w] = "write"]
          /\ whook' = [whook EXCEPT ![w] = step.hookId]
          /\ UNCHANGED <<settled, raised, pendingAtRaise>>
     ELSE /\ wpc' = [wpc EXCEPT ![w] = "settled"]
          /\ whook' = [whook EXCEPT ![w] = 0]
          /\ settled' = Append(settled, [w |-> w, error |-> IF step.next = "reject" THEN step.error ELSE NoError])
          /\ raised' = IF step.next = "reject" THEN Append(raised, i) ELSE raised
          /\ pendingAtRaise' = IF step.next = "reject"
                               THEN pendingAtRaise \cup { queue[j] : j \in 1..Len(queue) }
                               ELSE pendingAtRaise

\* The response to a worker's hook-list request.
ListResp(w) ==
  /\ phase = "running"
  /\ wpc[w] = "list"
  /\ LET i == witem[w]
         repo == repos[i]
     IN \E resp \in Responses("GET", <<>>, 0) :
          /\ budget' = Spent(resp)
          /\ LET found == findMatchingHook(resp, hooks[repo.full_name], WebhookUrl)
                 step == reconcileListed(repo, found)
             IN /\ Take(w, step)
                /\ calls' = [calls EXCEPT ![i] = Issued(Answered(@, resp, found.hook.id), step)]
  /\ UNCHANGED holo
  /\ UNCHANGED <<phase, url, page, repos, queue, abortError, witem, thrown,
                 pages, archived, hooks, faultKinds, run, firstErrors, clearedAtAbort,
                 inFlightAtAbort, hooks0, listResponse, handler>>

\* The response to a worker's POST or DELETE request.
WriteResp(w) ==
  /\ phase = "running"
  /\ wpc[w] = "write"
  /\ LET i == witem[w]
         repo == repos[i]
         nm == repo.full_name
         method == IF repo.archived THEN "DELETE" ELSE "POST"
     IN \E resp \in Responses(method, hooks[nm], whook[w]) :
          /\ budget' = Spent(resp)
          /\ hooks' = IF ~ResponseOk(resp) \/ ~resp.net THEN hooks
                      ELSE IF method = "POST" THEN [hooks EXCEPT ![nm] = Created(@)]
                      ELSE [hooks EXCEPT ![nm] = Removed(@, whook[w])]
          /\ LET step == reconcileWritten(repo, resp)
             IN /\ Take(w, step)
                /\ calls' = [calls EXCEPT ![i] = Issued(Answered(@, resp, 0), step)]
  /\ UNCHANGED holo
  /\ UNCHANGED <<phase, url, page, repos, queue, abortError, witem, thrown,
                 pages, archived, faultKinds, run, firstErrors, clearedAtAbort,
                 inFlightAtAbort, hooks0, listResponse, handler>>

\* A worker of runWithConcurrency resumes after `await fn(item)`: the catch
\* block on a rejection, else the loop test and the next item.  When the last
\* worker returns, Promise.all resolves and syncWebhooks ends.
Resume ==
  /\ phase = "running"
  /\ settled # <<>>
  /\ LET w == Head(settled).w
         err == Head(settled).error
         caught == err # NoError
         more == ~caught /\ WorkerContinues(queue, abortError)
         pcs == [wpc EXCEPT ![w] = IF more THEN "list" ELSE "done"]
         abort == IF caught THEN CapturedError(abortError, err) ELSE abortError
         out == Outcome(abort, result)
     IN /\ settled' = Tail(settled)
        /\ abortError' = abort
        /\ queue' = IF caught THEN CaughtQueue(queue) ELSE IF more THEN Tail(queue) ELSE queue
        /\ wpc' = pcs
        /\ witem' = [witem EXCEPT ![w] = IF more THEN Head(queue) ELSE 0]
        /\ calls' = IF more THEN [calls EXCEPT ![Head(queue)] = Append(@, Call("GET", 0))]
                              ELSE calls
        /\ clearedAtAbort' = IF caught
                             THEN clearedAtAbort \cup { queue[j] : j \in 1..Len(queue) }
                             ELSE clearedAtAbort
        /\ inFlightAtAbort' = IF caught
                              THEN inFlightAtAbort \cup { witem[v] : v \in InFlight(wpc) }
                              ELSE inFlightAtAbort
        /\ IF AllReturned(pcs)
           THEN /\ phase' = out.phase
                /\ result' = out.result
                /\ thrown' = out.thrown
           ELSE UNCHANGED <<phase, result, thrown>>
  /\ UNCHANGED holo
  /\ UNCHANGED <<url, page, repos, whook, pages, archived, hooks, faultKinds, budget,
                 run, firstErrors, raised, pendingAtRaise, hooks0, listResponse, handler>>

\* syncWebhooks is called a second time, against the remote as the first run
\* left it.
Rerun ==
  /\ phase = "returned"
  /\ run = 1
  /\ run' = 2
  /\ firstErrors' = result.errors
  /\ phase' = "listing"
  /\ url' = 1
  /\ page' = 0
  /\ repos' = <<>>
  /\ queue' = <<>>
  /\ abortError' = NoError
  /\ wpc' = [w \in Workers |-> "idle"]
  /\ witem' = [w \in Workers |-> 0]
  /\ result' = EmptyResult
  /\ calls' = <<>>
  /\ raised' = <<>>
  /\ pendingAtRaise' = {}
  /\ clearedAtAbort' = {}
  /\ inFlightAtAbort' = {}
  /\ hooks0' = hooks
  /\ UNCHANGED holo
  /\ UNCHANGED <<whook, settled, thrown, pages, archived, hooks, faultKinds, budget,
                 listResponse, handler>>

Next ==
  \/ ListPage
  \/ \E w \in Workers : ListResp(w)
  \/ \E w \in Workers : WriteResp(w)
  \/ Resume

Spec == Init /\ [][Next]_vars

\* A listing longer than the worker budget, so that items wait in the queue
\* while every worker is busy; the remote fails with rate-limit responses only.
InitQueue ==
  InitWith({ Listing(CONCURRENCY + n) : n \in 1..MaxQueued }, {TooManyRequests}, MaxQueueFaults)

SpecQueue == InitQueue /\ [][Next]_vars

\* Every request that was issued is answered at some time (`await fetchFn(..)`
\* settles), and a worker whose `await fn(item)` has settled is resumed by the
\* job queue.
Settles ==
  /\ WF_vars(ListPage)
  /\ \A w \in Workers : WF_vars(ListResp(w)) /\ WF_vars(WriteResp(w))
  /\ WF_vars(Resume)

\* Listings of no repository, of one, and of more than the worker budget,
\* against a remote that may answer with a rate limit.
InitLive ==
  /\ \E n \in {0, 1} \cup { CONCURRENCY + k : k \in 1..MaxQueued } :
       InitRemote(PagesOf(Listing(n)), 0)
  /\ InitLocal({TooManyRequests}, MaxLiveFaults)
  /\ phase = "listing"
  /\ authorization = NoHeader
  /\ env = Env("", "", "")

SpecLive == InitLive /\ [][Next]_vars /\ Settles

\* Two runs in a row, over short listings that may repeat a name.
InitTwice ==
  InitWith(DistinctListings(MaxReposTwice) \cup DupListings, FaultResponses, MaxTwiceFaults)

NextTwice == Next \/ Rerun

SpecTwice == InitTwice /\ [][NextTwice]_vars

\* Every kind of failing response, one per behaviour: the two rate-limit
\* answers, a 403 of either other kind, a 422, a rejected fetch and a 200 with
\* an undecodable body.
InitAllFaults == InitWith(DistinctListings(MaxRepos), AllFaultResponses, MaxAllFaults)

SpecAllFaults == InitAllFaults /\ [][Next]_vars

\* A listing longer than the worker budget against a remote whose failures are
\* never rate limits.
InitQueueErrors ==
  InitWith({ Listing(CONCURRENCY + n) : n \in 1..MaxQueued }, {UnprocessableResponse},
           MaxQueueErrors)

SpecQueueErrors == InitQueueErrors /\ [][Next]_vars

\* A listing longer than the worker budget against a remote whose failures are
\* rejected fetches and undecodable bodies.
InitQueueTransport ==
  InitWith({ Listing(CONCURRENCY + n) : n \in 1..MaxQueued }, {RejectedFetch, UndecodableBody},
           MaxTransportFaults)

SpecQueueTransport == InitQueueTransport /\ [][Next]_vars

\* A remote whose rel="next" links never end: after the listed repositories
\* the links run round a ring of empty pages.
InitCycle ==
  /\ \E n \in 0..MaxReposCycle, ring \in 1..MaxCycleLen, rot \in 0..3 :
       InitRemote(CyclicPagesOf(Listing(n), ring), rot)
  /\ InitLocal({TooManyRequests}, MaxCycleFaults)
  /\ phase = "listing"
  /\ authorization = NoHeader
  /\ env = Env("", "", "")

SpecCycle == InitCycle /\ [][Next]_vars

\* Two runs in a row over short listings that may repeat a name, against a
\* remote whose repositories take their kinds in turn, those holding two
\* hooks of the desired URL included.
InitTwin ==
  /\ \E listing \in DistinctListings(MaxReposTwin) \cup DupListings :
       \E rot \in 0..(Len(Kinds \o TwinKinds) - 1) :
         InitRemoteOf(PagesOf(listing),
                      [nm \in NamesOn(PagesOf(listing)) |->
                         (Kinds \o TwinKinds)[((NameIndex(nm) - 1 + rot) % Len(Kinds \o TwinKinds)) + 1]])
  /\ InitLocal(FaultResponses, MaxTwinFaults)
  /\ phase = "listing"
  /\ authorization = NoHeader
  /\ env = Env("", "", "")

SpecTwin == InitTwin /\ [][NextTwice]_vars

\* Short listings, so that two workers at most run side by side, against a
\* remote that may fail twice.
InitPair == InitWith(DistinctListings(MaxReposPair), FaultResponses, MaxPairFaults)

SpecPair == InitPair /\ [][Next]_vars

\* Listings shorter and longer than the worker budget: none, one, and more
\* repositories than workers.
InitWidths ==
  InitWith({ Listing(n) : n \in {0, 1} \cup { CONCURRENCY + k : k \in 1..MaxQueued } },
           {UnprocessableResponse}, MaxWidthFaults)

SpecWidths == InitWidths /\ [][Next]_vars

\* handleSyncWebhooks up to its first request to GitHub: an early return, or
\* the call of syncWebhooks, which issues the first page request.
Handle ==
  /\ phase = "handling"
  /\ answer' = EarlyAnswer(authorization, env)
  /\ phase' = IF answer' = NoAnswer THEN "listing" ELSE "answered"
  /\ UNCHANGED holo
  /\ UNCHANGED <<url, page, repos, queue, abortError, wpc, witem, whook, settled, result,
                 thrown, pages, archived, hooks, faultKinds, budget, run, firstErrors,
                 calls, history, listResponse, authorization, env>>

\* handleSyncWebhooks after `await syncWebhooks(config)`: the Response of the
\* result, or the catch block.
Respond ==
  /\ phase \in {"returned", "thrown"}
  /\ answer' = IF phase = "thrown" THEN ErrorAnswer(thrown) ELSE SuccessAnswer(result)
  /\ phase' = "answered"
  /\ UNCHANGED holo
  /\ UNCHANGED <<url, page, repos, queue, abortError, wpc, witem, whook, settled, result,
                 thrown, pages, archived, hooks, faultKinds, budget, run, firstErrors,
                 calls, history, listResponse, authorization, env>>

\* A POST to /api/sync-webhooks, whatever its Authorization header and the
\* Worker's configuration are.
InitEndpoint ==
  /\ InitRun(DistinctListings(MaxRepos), AllFaultResponses, MaxEndpointFaults)
  /\ phase = "handling"
  /\ authorization \in Headers
  /\ env \in Envs

NextEndpoint == Handle \/ Next \/ Respond

SpecEndpoint == InitEndpoint /\ [][NextEndpoint]_vars

\* convertToHolo up to `await client.messages.create(..)`: the tone is selected.
ConvertSelect ==
  /\ phase = "idle"
  /\ holoPc = "idle"
  /\ \E tone \in SelectableTones(toneHistory) : selectedTone' = tone
  /\ holoPc' = "awaiting"
  /\ UNCHANGED <<toneHistory, startLen, lastTone>>
  /\ UNCHANGED sync

\* messages.create resolved: the history is updated and the message returned.
ConvertReturn ==
  /\ holoPc = "awaiting"
  /\ toneHistory' = Updated(toneHistory, selectedTone)
  /\ lastTone' = selectedTone
  /\ selectedTone' = NoTone
  /\ holoPc' = "idle"
  /\ UNCHANGED startLen
  /\ UNCHANGED sync

\* messages.create rejected: convertToHolo throws before it touches the history.
ConvertThrow ==
  /\ holoPc = "awaiting"
  /\ selectedTone' = NoTone
  /\ holoPc' = "idle"
  /\ UNCHANGED <<toneHistory, startLen, lastTone>>
  /\ UNCHANGED sync

\* The entries an initial history may hold: some tones and a foreign string.
StartEntries == { TONE_PATTERNS[k] : k \in 1..MaxStartTones } \cup {"1"}

\* The histories convertToHolo may be called on first: every sequence of at
\* most HistoryLimit entries, and longer ones of foreign strings.
StartHistories ==
  UNION { [1..n -> StartEntries] : n \in 0..HistoryLimit }
    \cup { [k \in 1..n |-> "1"] : n \in (HistoryLimit + 1)..MaxStartLen }

\* Calls of convertToHolo one after the other on one history array; syncWebhooks
\* is not running.
InitHolo ==
  /\ InitRemote(PagesOf(<<>>), 0)
  /\ InitSync({}, 0)
  /\ phase = "idle"
  /\ authorization = NoHeader
  /\ env = Env("", "", "")
  /\ toneHistory \in StartHistories
  /\ startLen = Len(toneHistory)
  /\ selectedTone = NoTone
  /\ holoPc = "idle"
  /\ lastTone = NoTone

NextHolo == ConvertSelect \/ ConvertReturn \/ ConvertThrow

SpecHolo == InitHolo /\ [][NextHolo]_vars

\* ------------------------------------------------------------ properties
Returned == phase = "returned"

Items == DOMAIN calls

NameOf(i) == repos[i].full_name

Count(seq, x) == Cardinality({ k \in 1..Len(seq) : seq[k] = x })

ErrorRepos == [k \in 1..Len(result.errors) |-> result.errors[k].repo]

\* How often a name stands in created, deleted and unchanged together.
Recorded(nm) ==
  Count(result.created, nm) + Count(result.deleted, nm) + Count(result.unchanged, nm)

\* How often a name stands in the four lists together.
Occurrences(nm) == Recorded(nm) + Count(ErrorRepos, nm)

DistinctNames ==
  \A i, j \in 1..Len(repos) : i # j => repos[i].full_name # repos[j].full_name

\* A response that is a success: delivered, with a 2xx status.
Success(resp) == resp.net /\ resp.status \in 200..299

\* A response that signals a rate limit.
RateLimited(resp) ==
  resp.net /\ (resp.status = 429 \/ (resp.status = 403 /\ resp.remaining = "0"))

HasCall(i, method) == \E k \in 1..Len(calls[i]) : calls[i][k].method = method

ListAnsweredOk(i) ==
  Len(calls[i]) >= 1 /\ calls[i][1].done /\ Success(calls[i][1].resp)

WriteAnsweredOk(i) ==
  Len(calls[i]) = 2 /\ calls[i][2].done /\ Success(calls[i][2].resp)

\* Every request of the item was answered with a success.
CleanItem(i) ==
  /\ calls[i] # <<>>
  /\ \A k \in 1..Len(calls[i]) : calls[i][k].done /\ Success(calls[i][k].resp)

\* The hook of the desired URL that stands first in a hook list, NoHook if none.
Matching(hs) ==
  LET at == { k \in 1..Len(hs) : hs[k].url = WebhookUrl }
  IN IF at = {} THEN NoHook ELSE hs[CHOOSE k \in at : \A j \in at : k <= j]

\* The hook matching the desired URL that the repository held when the run began.
Match0(nm) == Matching(hooks0[nm])

\* C1: in the returned result, for a listing of distinct names, no repository
\* name stands in more than one of created, deleted, unchanged and errors, and
\* none stands twice in one list.
C1_NoNameTwice ==
  (Returned /\ DistinctNames) =>
    \A i \in 1..Len(repos) : Occurrences(NameOf(i)) <= 1

\* A run that returned created, a per-repository error and the rate-limit entry.
C1_Witness ==
  /\ Returned
  /\ DistinctNames
  /\ result.created # <<>>
  /\ Len(result.errors) = 2
  /\ Count(ErrorRepos, RateLimitedRepo) = 1

\* C2 as stated: every repository reconciled without an error stands in exactly
\* one of created, deleted, unchanged.
C2_Original ==
  Returned => \A i \in Items : CleanItem(i) => Recorded(NameOf(i)) = 1

\* C2, amended: every repository reconciled without an error stands in exactly
\* one of created, deleted, unchanged, except an archived repository without a
\* matching hook, which stands in none of the four lists.
C2_CleanItemRecorded ==
  Returned =>
    \A i \in Items : CleanItem(i) =>
      IF repos[i].archived /\ calls[i][1].match = 0
      THEN Occurrences(NameOf(i)) = 0
      ELSE Recorded(NameOf(i)) = 1 /\ Occurrences(NameOf(i)) = 1

\* A returned run with a clean archived repository without hook and a clean
\* repository of another kind.
C2_Witness ==
  /\ Returned
  /\ \E i, j \in Items :
       /\ CleanItem(i) /\ repos[i].archived /\ calls[i][1].match = 0
       /\ CleanItem(j) /\ ~(repos[j].archived /\ calls[j][1].match = 0)

\* C3 as stated: every listed active repository without a matching hook gets a
\* POST and stands in the returned created list.
C3_Original ==
  Returned =>
    \A i \in 1..Len(repos) :
      (~repos[i].archived /\ Match0(NameOf(i)) = NoHook) =>
        HasCall(i, "POST") /\ Count(result.created, NameOf(i)) >= 1

\* C3, amended: for an active repository without a matching hook, a POST is
\* issued once its hook list is answered with success, and the repository
\* stands in created once that POST is answered with success.
C3_CreatedWhenAbsent ==
  \A i \in Items :
    (~repos[i].archived /\ Match0(NameOf(i)) = NoHook) =>
      /\ ListAnsweredOk(i) => HasCall(i, "POST")
      /\ WriteAnsweredOk(i) => Count(result.created, NameOf(i)) = 1

\* A returned run in which an active repository without hook was created.
C3_Witness ==
  /\ Returned
  /\ \E i \in Items :
       /\ ~repos[i].archived /\ Match0(NameOf(i)) = NoHook
       /\ WriteAnsweredOk(i)

\* C4 as stated: every listed active repository with a matching hook stands in
\* the returned unchanged list and gets neither a POST nor a DELETE.
C4_Original ==
  Returned =>
    \A i \in 1..Len(repos) :
      (~repos[i].archived /\ Match0(NameOf(i)) # NoHook) =>
        /\ Count(result.unchanged, NameOf(i)) >= 1
        /\ ~HasCall(i, "POST") /\ ~HasCall(i, "DELETE")

\* C4, amended: an active repository with a matching hook gets neither a POST
\* nor a DELETE, and stands in unchanged once its hook list is answered with
\* success.
C4_UnchangedWhenPresent ==
  \A i \in Items :
    (~repos[i].archived /\ Match0(NameOf(i)) # NoHook) =>
      /\ ~HasCall(i, "POST") /\ ~HasCall(i, "DELETE")
      /\ ListAnsweredOk(i) => Count(result.unchanged, NameOf(i)) = 1

\* A returned run in which an active repository with a matching hook was listed
\* with success.
C4_Witness ==
  /\ Returned
  /\ \E i \in Items :
       /\ ~repos[i].archived /\ Match0(NameOf(i)) # NoHook
       /\ ListAnsweredOk(i)

\* C5 as stated: every listed archived repository with a matching hook gets a
\* DELETE addressed to that hook's id and stands in the returned deleted list.
C5_Original ==
  Returned =>
    \A i \in 1..Len(repos) :
      (repos[i].archived /\ Match0(NameOf(i)) # NoHook) =>
        /\ \E k \in 1..Len(calls[i]) :
             calls[i][k].method = "DELETE" /\ calls[i][k].hookId = Match0(NameOf(i)).id
        /\ Count(result.deleted, NameOf(i)) >= 1

\* C5, amended: for an archived repository with a matching hook, a DELETE
\* addressed to that hook's id is issued once its hook list is answered with
\* success, and the repository stands in deleted once that DELETE is answered
\* with success.
C5_DeletedWhenPresent ==
  \A i \in Items :
    (repos[i].archived /\ Match0(NameOf(i)) # NoHook) =>
      /\ ListAnsweredOk(i) =>
           /\ Len(calls[i]) = 2
           /\ calls[i][2].method = "DELETE"
           /\ calls[i][2].hookId = Match0(NameOf(i)).id
      /\ WriteAnsweredOk(i) => Count(result.deleted, NameOf(i)) = 1

\* A returned run in which the matching hook of an archived repository was
\* deleted.
C5_Witness ==
  /\ Returned
  /\ \E i \in Items :
       /\ repos[i].archived /\ Match0(NameOf(i)) # NoHook
       /\ WriteAnsweredOk(i)
       /\ Matching(hooks[NameOf(i)]) = NoHook

\* C6 as stated: a listed archived repository without a matching hook gets no
\* write request and stands in none of the four lists.
C6_Original ==
  \A i \in Items :
    (repos[i].archived /\ Match0(NameOf(i)) = NoHook) =>
      /\ ~HasCall(i, "POST") /\ ~HasCall(i, "DELETE")
      /\ Occurrences(NameOf(i)) = 0

\* C6, amended: an archived repository without a matching hook gets no write
\* request and stands in none of created, deleted, unchanged; it stands in
\* errors only when its hook-list request failed without a rate limit, and
\* then once.
C6_NothingWhenArchivedAbsent ==
  \A i \in Items :
    (repos[i].archived /\ Match0(NameOf(i)) = NoHook) =>
      /\ ~HasCall(i, "POST") /\ ~HasCall(i, "DELETE")
      /\ Recorded(NameOf(i)) = 0
      /\ Count(ErrorRepos, NameOf(i)) =
           (IF /\ Len(calls[i]) = 1 /\ calls[i][1].done
               /\ ~Success(calls[i][1].resp) /\ ~RateLimited(calls[i][1].resp)
            THEN 1 ELSE 0)

\* A returned run in which an archived repository that holds only a hook of
\* another URL was listed with success, and its hooks are as they were.
C6_Witness ==
  /\ Returned
  /\ \E i \in Items :
       /\ repos[i].archived /\ Match0(NameOf(i)) = NoHook
       /\ ListAnsweredOk(i)
       /\ Occurrences(NameOf(i)) = 0
       /\ hooks[NameOf(i)] = hooks0[NameOf(i)]
       /\ hooks0[NameOf(i)] # <<>>

\* C7: when the first of two runs in a row returned with errors = [] (none of
\* its requests failed), the second run returns created = [] and deleted = [],
\* for every initial set of repositories and hooks.
C7_SecondRunSettled ==
  (run = 2 /\ Returned /\ firstErrors = <<>>) =>
    result.created = <<>> /\ result.deleted = <<>>

\* The answered requests of the run that met a rate-limit response.
RateLimitedCalls ==
  { <<i, k>> \in Items \X (1..2) :
      k <= Len(calls[i]) /\ calls[i][k].done /\ RateLimited(calls[i][k].resp) }

\* C8: the returned result holds exactly one "(rate-limited)" entry when some
\* per-repository request was rate-limited, however many were, and none
\* otherwise.
C8_OneRateLimitedEntry ==
  Returned =>
    Count(ErrorRepos, RateLimitedRepo) = (IF RateLimitedCalls # {} THEN 1 ELSE 0)

\* A returned run in which two workers met a rate-limit response.
C8_Witness == Returned /\ Cardinality(RateLimitedCalls) = 2

C10_InFlightRecorded ==
  Returned =>
    \A i \in inFlightAtAbort :
      /\ calls[i] # <<>>
      /\ \A k \in 1..Len(calls[i]) : calls[i][k].done
      /\ LET c == calls[i][Len(calls[i])]
             nm == NameOf(i)
         IN IF Success(c.resp)
            THEN CASE c.method = "POST" -> Count(result.created, nm) = 1
                   [] c.method = "DELETE" -> Count(result.deleted, nm) = 1
                   [] OTHER -> IF repos[i].archived
                               THEN Occurrences(nm) = 0
                               ELSE Count(result.unchanged, nm) = 1
            ELSE IF RateLimited(c.resp) THEN Occurrences(nm) = 0
            ELSE Count(ErrorRepos, nm) = 1

\* A returned run in which one item in flight at the abort was created and
\* another one failed with a per-repository error.
C10_Witness ==
  /\ Returned
  /\ \E i, j \in inFlightAtAbort :
       /\ Count(result.created, NameOf(i)) = 1
       /\ Count(ErrorRepos, NameOf(j)) = 1

\* A response a page request of the listing fails on: a rejected fetch, a
\* status outside 2xx (a rate limit included) or a body that is not JSON.
ListingFails(resp) ==
  resp # NoResponse /\ (~resp.net \/ resp.status \notin 200..299 \/ resp.body # "json")

\* C11: when a page request of the listing fails, on whichever page,
\* syncWebhooks throws, and no hook-list, create or delete request is issued
\* in that run: no worker starts.
C11_ListingFailureThrows ==
  ListingFails(listResponse) =>
    /\ phase = "thrown"
    /\ thrown # NoError
    /\ calls = <<>>
    /\ \A w \in Workers : wpc[w] = "idle"

\* A listing that failed on its second page on an undecodable body.
C11_Witness ==
  /\ phase = "thrown"
  /\ page = 1
  /\ listResponse = UndecodableBody
  /\ thrown = SyntaxError

\* syncWebhooks has ended, by a return or by a throw.
Ended == phase \in {"returned", "thrown"}

\* The items one of whose requests was answered with something else than a
\* success.
FailedItems ==
  { i \in Items : \E k \in 1..Len(calls[i]) : calls[i][k].done /\ ~Success(calls[i][k].resp) }

\* C12: in a run whose listing succeeded and in which no rate-limit response
\* occurs, a failure while reconciling a repository never sets the abort and
\* syncWebhooks does not throw; at the end every listed repository was
\* dequeued and all its requests answered, each failed repository stands once
\* in errors under its own name and in no other list, and no other repository
\* stands in errors.
C12_FailureDoesNotStopRun ==
  (~ListingFails(listResponse) /\ RateLimitedCalls = {}) =>
    /\ abortError = NoError
    /\ phase # "thrown"
    /\ Ended =>
         \A i \in 1..Len(repos) :
           /\ calls[i] # <<>>
           /\ \A k \in 1..Len(calls[i]) : calls[i][k].done
           /\ Count(ErrorRepos, NameOf(i)) = (IF i \in FailedItems THEN 1 ELSE 0)
           /\ i \in FailedItems => Recorded(NameOf(i)) = 0

\* A returned run of six repositories in which two of the first five failed
\* and the sixth, dequeued afterwards, was reconciled.
C12_Witness ==
  /\ Returned
  /\ Len(repos) > CONCURRENCY
  /\ Cardinality(FailedItems) = 2
  /\ Len(result.errors) = 2
  /\ (Len(repos)) \notin FailedItems
  /\ Occurrences(NameOf(Len(repos))) = 1

\* fetchAllUserRepos has returned the repository list.
ListingSucceeded == phase # "listing" /\ ~ListingFails(listResponse)

\* C13: once the listing has succeeded, syncWebhooks never throws: while it
\* runs some worker is waiting for a response or for its resumption, and when
\* no worker is left it has returned its result.
C13_ReturnsAfterListing ==
  ListingSucceeded =>
    /\ phase \in {"running", "returned"}
    /\ thrown = NoError
    /\ phase = "running" => (InFlight(wpc) # {} \/ settled # <<>>)
    /\ (InFlight(wpc) = {} /\ settled = <<>>) => Returned

\* A returned run in which one repository met a rejected fetch and another
\* one a rate limit.
C13_Witness ==
  /\ Returned
  /\ RateLimitedCalls # {}
  /\ \E i \in Items : \E k \in 1..Len(calls[i]) : calls[i][k].done /\ ~calls[i][k].resp.net
  /\ Len(result.errors) = 2

\* The per-item function of the item raised.
ItemRaised(i) == \E k \in 1..Len(raised) : raised[k] = i

\* A 403 whose X-RateLimit-Remaining header is absent or not "0".
OrdinaryForbidden(resp) == resp.net /\ resp.status = 403 /\ resp.remaining # "0"

\* C14: a response is treated as a rate limit exactly when its status is 429,
\* or 403 with X-RateLimit-Remaining "0": the per-item function raises exactly
\* on such a response, the abort is only ever set by one, and a failed listing
\* throws GitHubRateLimitError exactly on one.  A 403 without that header, or
\* with another value, answered to a repository's request gives an errors
\* entry under the repository's name and no abort.
C14_RateLimitClassification ==
  /\ \A i \in Items :
       /\ ItemRaised(i) <=>
            \E k \in 1..Len(calls[i]) : calls[i][k].done /\ RateLimited(calls[i][k].resp)
       /\ \A k \in 1..Len(calls[i]) :
            (calls[i][k].done /\ OrdinaryForbidden(calls[i][k].resp)) =>
              /\ Count(ErrorRepos, NameOf(i)) = 1
              /\ result.errors[CHOOSE e \in 1..Len(result.errors) :
                                  result.errors[e].repo = NameOf(i)].error[2] = 403
  /\ abortError # NoError =>
       abortError.name = "GitHubRateLimitError" /\ RateLimitedCalls # {}
  /\ ListingFails(listResponse) =>
       (thrown.name = "GitHubRateLimitError" <=> RateLimited(listResponse))

\* A returned run in which a repository's request was answered 403 with
\* X-RateLimit-Remaining "1", and the run was not aborted.
C14_Witness ==
  /\ Returned
  /\ abortError = NoError
  /\ \E i \in Items : \E k \in 1..Len(calls[i]) :
       calls[i][k].done /\ calls[i][k].resp = ForbiddenResponse
  /\ Count(ErrorRepos, RateLimitedRepo) = 0

\* The workers runWithConcurrency started.
Started == { w \in Workers : wpc[w] # "idle" }

\* The items whose per-item function waits for the answer to a request.
BeingReconciled == { i \in Items : calls[i] # <<>> /\ ~calls[i][Len(calls[i])].done }

\* C15: runWithConcurrency starts as many workers as there are items, and five
\* when there are more; never more than five repositories are being
\* reconciled at once; for an empty listing syncWebhooks returns with no
\* worker started, no request issued and four empty lists.
C15_WorkerBudget ==
  /\ phase \in {"running", "returned"} =>
       Cardinality(Started) = (IF Len(repos) < 5 THEN Len(repos) ELSE 5)
  /\ Cardinality(BeingReconciled) <= 5
  /\ (ListingSucceeded /\ repos = <<>>) =>
       /\ Returned
       /\ Started = {}
       /\ calls = <<>>
       /\ result = EmptyResult

\* A run of more repositories than workers: five are being reconciled and
\* one waits in the queue.
C15_Witness ==
  /\ phase = "running"
  /\ Len(repos) > 5
  /\ Cardinality(BeingReconciled) = 5
  /\ Len(queue) = Len(repos) - 5

\* The error the per-item function of a raised item rejected with: the rate
\* limit of its last response, with that response's Retry-After header.
RaisedError(i) == GitHubRateLimitError(calls[i][Len(calls[i])].resp.retryAfter)

\* C16: when per-item functions raised, the one error runWithConcurrency holds
\* once every worker has returned, which it rethrows, is the error of the
\* item that raised last; the errors raised before are gone.
C16_LastRaisedWins ==
  (Ended /\ raised # <<>>) => abortError = RaisedError(raised[Len(raised)])

\* A returned run in which two per-item functions raised different errors.
C16_Witness ==
  /\ Returned
  /\ Len(raised) = 2
  /\ RaisedError(raised[1]) # RaisedError(raised[2])
  /\ Count(ErrorRepos, RateLimitedRepo) = 1

\* The names on the first p pages of the remote's listing, in page order.
RECURSIVE NamesUpTo(_)
NamesUpTo(p) == IF p = 0 THEN <<>> ELSE NamesUpTo(p - 1) \o pages[p].data

\* The hook-list requests issued for an item.
HookListRequests(i) == Cardinality({ k \in 1..Len(calls[i]) : calls[i][k].method = "GET" })

\* C17: after a listing over linked pages, the repositories handed to
\* reconciliation are those of all pages, each as often as the pages hold it
\* (once), none dropped or added, and each is passed to the per-item function
\* once.
C17_AllPagesListed ==
  ListingSucceeded =>
    /\ page = Len(pages)
    /\ [i \in 1..Len(repos) |-> NameOf(i)] = NamesUpTo(Len(pages))
    /\ \A i \in 1..Len(repos) : HookListRequests(i) = 1

\* A returned run over a listing of two pages.
C17_Witness ==
  /\ Returned
  /\ Len(pages) = 2
  /\ pages[1].next = 2
  /\ Len(repos) = Len(pages[1].data) + Len(pages[2].data)
  /\ Len(pages[2].data) > 0

\* The POST and DELETE requests issued for an item.
WriteRequests(i) ==
  Cardinality({ k \in 1..Len(calls[i]) : calls[i][k].method \in {"POST", "DELETE"} })

\* C18: in one run each listed repository gets at most one hook-list request
\* and at most one write request, whatever the answers are, also once the run
\* has been aborted by a rate limit.
C18_NoRetry ==
  \A i \in Items :
    /\ HookListRequests(i) <= 1
    /\ WriteRequests(i) <= 1
    /\ Len(calls[i]) <= 2

\* A run that returned after a rate-limit abort, in which the POST of another
\* repository had failed and was not issued again.
C18_Witness ==
  /\ Returned
  /\ Count(ErrorRepos, RateLimitedRepo) = 1
  /\ \E i \in Items :
       /\ Len(calls[i]) = 2
       /\ calls[i][2].method = "POST"
       /\ calls[i][2].done
       /\ ~Success(calls[i][2].resp)
       /\ ~RateLimited(calls[i][2].resp)

\* The request carries the expected bearer token.
Authorized == authorization = <<"Bearer", " ", env.NOTIFY_API_TOKEN>>

\* GITHUB_TOKEN and WEBHOOK_URL are both set.
Configured == env.GITHUB_TOKEN # "" /\ env.WEBHOOK_URL # ""

\* syncWebhooks was not started: no page request and no per-repository
\* request was issued.
NoGitHubRequest ==
  /\ phase \in {"handling", "answered"}
  /\ page = 0
  /\ listResponse = NoResponse
  /\ repos = <<>>
  /\ calls = <<>>
  /\ budget = MaxEndpointFaults

\* C19: a request without the expected bearer token is answered 401, and an
\* authorized one is answered 400 when GITHUB_TOKEN or WEBHOOK_URL is not
\* set; in both cases syncWebhooks is not started and no request to GitHub
\* is issued.
C19_GuardsBeforeSync ==
  /\ ~Authorized =>
       /\ NoGitHubRequest
       /\ phase = "answered" => answer.status = 401
  /\ (Authorized /\ ~Configured) =>
       /\ NoGitHubRequest
       /\ phase = "answered" => answer.status = 400 /\ answer.kind = "error"

\* A request with a bearer token other than the expected one, answered 401
\* by a Worker that is fully configured.
C19_Witness ==
  /\ phase = "answered"
  /\ authorization = BearerHeader("wrong-token")
  /\ Configured
  /\ answer.status = 401

\* The message of the endpoint's answer carries the status of the response the
\* listing failed on.
MessageHasStatus ==
  Len(answer.message) = 2 /\ answer.message[2] = listResponse.status

\* C20 as stated: whenever the listing failed, the endpoint answers 500, with
\* a message that includes the failing status whenever the failure is a
\* response with a failing status.
C20_Original ==
  (phase = "answered" /\ ListingFails(listResponse)) =>
    /\ answer.status = 500
    /\ (listResponse.net /\ listResponse.status \notin 200..299) => MessageHasStatus

\* C20, amended: whenever the listing failed, the endpoint answers 500 with a
\* JSON error whose message is that of the thrown error: it names the failing
\* status when the response had a non-success status that is not a rate
\* limit; for a rate limit it is the fixed rate-limit text, and for a rejected
\* fetch or an undecodable body the text of that error, without a status.
C20_ListingFailureIs500 ==
  (phase = "answered" /\ ListingFails(listResponse)) =>
    /\ answer.status = 500
    /\ answer.kind = "error"
    /\ answer.message = thrown.message
    /\ IF RateLimited(listResponse)
       THEN answer.message = <<"GitHub API rate limit exceeded">>
       ELSE IF listResponse.net /\ listResponse.status \notin 200..299
       THEN answer.message = <<"Failed to fetch repos", listResponse.status>>
       ELSE Len(answer.message) = 1

\* A listing that failed on its second page with status 422, answered 500
\* with that status in the message.
C20_Witness ==
  /\ phase = "answered"
  /\ page = 1
  /\ listResponse = UnprocessableResponse
  /\ answer = Answer(500, "error", <<"Failed to fetch repos", 422>>, EmptyResult)

\* C21: when syncWebhooks has returned, every worker has finished: no worker
\* waits for a response or for its resumption and every request issued was
\* answered, so that nothing is left that could issue a request or append to
\* the result.
C21_ReturnsAfterAllWorkers ==
  Returned =>
    /\ \A w \in Workers : wpc[w] \in {"idle", "done"}
    /\ settled = <<>>
    /\ BeingReconciled = {}
    /\ \A i \in Items : \A k \in 1..Len(calls[i]) : calls[i][k].done

\* A run that returned after an abort during which another repository was in
\* flight, and that recorded this repository's outcome.
C21_Witness ==
  /\ Returned
  /\ abortError # NoError
  /\ inFlightAtAbort # {}
  /\ Recorded(NameOf(CHOOSE i \in inFlightAtAbort : TRUE)) = 1

\* C22: every POST or DELETE request for a repository is the second request
\* of its reconciliation, after a hook-list request answered with a decodable
\* success; a POST is issued only when the repository held no hook of the
\* desired URL, a DELETE only when it held one, addressed to that hook's id.
C22_InspectorBeforeMutator ==
  \A i \in Items :
    \A k \in 1..Len(calls[i]) :
      calls[i][k].method \in {"POST", "DELETE"} =>
        /\ k = 2
        /\ calls[i][1].method = "GET"
        /\ calls[i][1].done
        /\ Success(calls[i][1].resp)
        /\ calls[i][1].resp.body = "json"
        /\ calls[i][k].method = "POST" => Match0(NameOf(i)) = NoHook
        /\ calls[i][k].method = "DELETE" =>
             /\ Match0(NameOf(i)) # NoHook
             /\ calls[i][k].hookId = Match0(NameOf(i)).id

\* A run in which one repository got a POST and another one a DELETE.
C22_Witness ==
  \E i, j \in Items :
    /\ Len(calls[i]) = 2 /\ calls[i][2].method = "POST"
    /\ Len(calls[j]) = 2 /\ calls[j][2].method = "DELETE" /\ calls[j][2].hookId = 42

\* The sequence a begins the sequence b.
IsPrefix(a, b) == Len(a) <= Len(b) /\ SubSeq(b, 1, Len(a)) = a

\* C23: during a run each of the four lists only grows at its end: every step,
\* the last one after a rate-limit abort included, keeps every entry appended
\* before in its place, so that the returned result holds them all.
C23_ListsOnlyGrow ==
  [][/\ IsPrefix(result.created, result'.created)
     /\ IsPrefix(result.deleted, result'.deleted)
     /\ IsPrefix(result.unchanged, result'.unchanged)
     /\ IsPrefix(result.errors, result'.errors)]_vars

\* A run returned after a rate-limit abort whose result holds a created
\* repository next to the "(rate-limited)" entry.
C23_Witness ==
  /\ Returned
  /\ abortError # NoError
  /\ result.created # <<>>
  /\ result.errors[Len(result.errors)].repo = RateLimitedRepo

\* C24: a rate-limited response raises GitHubRateLimitError with the
\* response's Retry-After value ("null" when absent) at every request site:
\* the listing throws it, and a per-item function rejects with it, which is
\* the error the runner captures; the repository whose request was
\* rate-limited stands in none of the four lists under its own name.
C24_RateLimitBeforeStatus ==
  /\ RateLimited(listResponse) => thrown = GitHubRateLimitError(listResponse.retryAfter)
  /\ \A i \in Items :
       (\E k \in 1..Len(calls[i]) : calls[i][k].done /\ RateLimited(calls[i][k].resp)) =>
         /\ ItemRaised(i)
         /\ Occurrences(NameOf(i)) = 0
  /\ \A k \in 1..Len(settled) :
       settled[k].error # NoError => settled[k].error = RaisedError(witem[settled[k].w])
  /\ abortError # NoError =>
       \E i \in Items : ItemRaised(i) /\ abortError = RaisedError(i)

\* A run that returned after a DELETE answered 429 with Retry-After "60".
C24_Witness ==
  /\ Returned
  /\ abortError = GitHubRateLimitError("60")
  /\ \E i \in Items :
       /\ Len(calls[i]) = 2
       /\ calls[i][2].method = "DELETE"
       /\ calls[i][2].resp = TooManyRequests

\* A write answered with a status that is neither a success nor a rate limit.
WriteRefused(i) ==
  /\ Len(calls[i]) = 2
  /\ calls[i][2].done
  /\ calls[i][2].resp.net
  /\ calls[i][2].resp.status \notin 200..299
  /\ ~RateLimited(calls[i][2].resp)

\* The errors entries under a repository's name.
ErrorsOf(nm) == SelectSeq(result.errors, LAMBDA e : e.repo = nm)

\* C25: a repository stands in created only once its POST was answered with a
\* success status, and in deleted only once its DELETE was; a repository
\* whose write was answered with a status that is neither a success nor a
\* rate limit stands in errors only, once, with that status in the message.
C25_WriteStatusDecides ==
  \A i \in Items :
    /\ Count(result.created, NameOf(i)) >= 1 =>
         /\ Len(calls[i]) = 2
         /\ calls[i][2].method = "POST"
         /\ calls[i][2].done /\ Success(calls[i][2].resp)
    /\ Count(result.deleted, NameOf(i)) >= 1 =>
         /\ Len(calls[i]) = 2
         /\ calls[i][2].method = "DELETE"
         /\ calls[i][2].done /\ Success(calls[i][2].resp)
    /\ WriteRefused(i) =>
         /\ Recorded(NameOf(i)) = 0
         /\ Len(ErrorsOf(NameOf(i))) = 1
         /\ Len(ErrorsOf(NameOf(i))[1].error) = 2
         /\ ErrorsOf(NameOf(i))[1].error[2] = calls[i][2].resp.status

\* A returned run whose only repository got its POST answered 422.
C25_Witness ==
  /\ Returned
  /\ Len(repos) = 1
  /\ Len(calls[1]) = 2
  /\ calls[1][2].method = "POST"
  /\ calls[1][2].resp = UnprocessableResponse
  /\ result = [EmptyResult EXCEPT !.errors =
                 <<[repo |-> NameOf(1), error |-> <<"Failed to create hook", 422>>]>>]

\* A request that failed below HTTP: its fetch was rejected, or it is a
\* hook-list request answered with a success whose body cannot be decoded.
TransportFailed(c) ==
  /\ c.done
  /\ \/ ~c.resp.net
     \/ c.method = "GET" /\ Success(c.resp) /\ c.resp.body # "json"

TransportFailedItems ==
  { i \in Items : \E k \in 1..Len(calls[i]) : TransportFailed(calls[i][k]) }

\* C26: a rejected fetch or an undecodable body during the listing makes
\* syncWebhooks throw before any repository is reconciled; during a
\* repository's reconciliation it gives one errors entry under that
\* repository's name and no abort, and at the end every listed repository
\* was dequeued and all its requests answered.
C26_TransportFailureLikeHttpError ==
  /\ (listResponse # NoResponse /\ (~listResponse.net \/ listResponse.body # "json")) =>
       phase = "thrown" /\ calls = <<>>
  /\ \A i \in TransportFailedItems :
       /\ Len(ErrorsOf(NameOf(i))) = 1
       /\ Recorded(NameOf(i)) = 0
       /\ ~ItemRaised(i)
  /\ ListingSucceeded =>
       /\ abortError = NoError
       /\ phase # "thrown"
       /\ Ended => \A i \in 1..Len(repos) :
                     calls[i] # <<>> /\ \A k \in 1..Len(calls[i]) : calls[i][k].done

\* A returned run of six repositories in which the hook list of one of the
\* first five could not be decoded and the sixth was reconciled afterwards.
C26_Witness ==
  /\ Returned
  /\ Len(repos) > CONCURRENCY
  /\ \E i \in TransportFailedItems : calls[i][1].resp = UndecodableBody
  /\ Len(result.errors) = 1
  /\ Occurrences(NameOf(Len(repos))) = 1

\* The names on the pages the listing loop visits in its first n requests,
\* starting at page p.
RECURSIVE Walk(_, _)
Walk(p, n) ==
  IF n = 0 \/ p = 0 THEN <<>> ELSE pages[p].data \o Walk(pages[p].next, n - 1)

\* C27: syncWebhooks issues at most MAX_PAGES (50) page requests in one run,
\* also when the rel="next" links form a cycle: the listing ends after the
\* fiftieth page without an error, and the run goes on with the repositories
\* accumulated over those pages.
C27_AtMostFiftyPages ==
  /\ page <= MAX_PAGES
  /\ phase = "listing" => page < MAX_PAGES
  /\ (page = MAX_PAGES /\ ~ListingFails(listResponse)) =>
       /\ phase \in {"running", "returned"}
       /\ thrown = NoError
       /\ [i \in 1..Len(repos) |-> NameOf(i)] = Walk(1, MAX_PAGES)

\* A returned run that stopped at the page ceiling with a next link still
\* pending and reconciled the repositories listed before the cycle.
C27_Witness ==
  /\ Returned
  /\ page = MAX_PAGES
  /\ url # 0
  /\ Len(repos) = MaxReposCycle
  /\ Len(result.created) + Len(result.deleted) + Len(result.unchanged) = MaxReposCycle

\* The number of hooks of the desired URL in a hook list.
MatchingCount(hs) == Cardinality({ k \in 1..Len(hs) : hs[k].url = WebhookUrl })

\* C28: after a run in which the listing and every request of every
\* repository were answered with a success, every archived repository of the
\* listing holds no hook of the desired URL and every active one exactly one.
C28_DesiredStateReached ==
  (Returned /\ ListingSucceeded /\ \A i \in Items : CleanItem(i)) =>
    \A i \in 1..Len(repos) :
      MatchingCount(hooks[NameOf(i)]) = IF repos[i].archived THEN 0 ELSE 1

\* The hooks of a hook list whose URL is not the desired one.
OtherHooks(hs) == SelectSeq(hs, LAMBDA h : h.url # WebhookUrl)

\* The ids of the hooks of the desired URL in a hook list.
MatchingIds(hs) == { hs[k].id : k \in { j \in 1..Len(hs) : hs[j].url = WebhookUrl } }

\* The repositories for which the run has issued a request.
Requested == { NameOf(i) : i \in { j \in Items : calls[j] # <<>> } }

\* C29: the run only reads, creates and deletes hooks.  The hooks of another
\* URL stay as they were when the run began, in their order; a DELETE is
\* issued for an archived repository only and addresses a hook of the desired
\* URL that the repository held when the run began; a POST is issued for an
\* active repository only; every request is for a repository of the listing,
\* and the hooks of a repository without a request are untouched.
C29_Frame ==
  /\ \A nm \in DOMAIN hooks : OtherHooks(hooks[nm]) = OtherHooks(hooks0[nm])
  /\ \A i \in Items : \A k \in 1..Len(calls[i]) :
       /\ calls[i][k].method \in {"GET", "POST", "DELETE"}
       /\ calls[i][k].method = "DELETE" =>
            /\ repos[i].archived
            /\ calls[i][k].hookId \in MatchingIds(hooks0[NameOf(i)])
       /\ calls[i][k].method = "POST" => ~repos[i].archived
  /\ \A i \in Items : NameOf(i) \in NamesOn(pages)
  /\ \A nm \in DOMAIN hooks : nm \notin Requested => hooks[nm] = hooks0[nm]

\* A returned run that deleted the matching hook of an archived repository
\* holding a hook of another URL as well, and created a hook for an active one.
C29_Witness ==
  /\ Returned
  /\ \E i \in Items :
       /\ repos[i].archived
       /\ WriteAnsweredOk(i)
       /\ OtherHooks(hooks0[NameOf(i)]) # <<>>
       /\ MatchingIds(hooks[NameOf(i)]) = {}
  /\ \E i \in Items : ~repos[i].archived /\ WriteAnsweredOk(i)

\* C30: no item is in the hands of two workers, and none is passed to the
\* per-item function a second time; when the listing succeeded and no per-item
\* invocation raised, the run returns normally once every item of the listing
\* was passed to the per-item function exactly once and got its answers.
C30_EveryItemOnce ==
  /\ \A w, v \in Workers : (w # v /\ witem[w] # 0) => witem[w] # witem[v]
  /\ \A i \in Items : HookListRequests(i) <= 1
  /\ (Ended /\ ListingSucceeded /\ raised = <<>>) =>
       /\ Returned
       /\ thrown = NoError
       /\ Count(ErrorRepos, "(rate-limited)") = 0
       /\ \A i \in 1..Len(repos) :
            /\ HookListRequests(i) = 1
            /\ \A k \in 1..Len(calls[i]) : calls[i][k].done

\* A returned run over more repositories than workers in which no per-item
\* invocation raised: the queued repository was reconciled as well.
C30_Witness ==
  /\ Returned
  /\ raised = <<>>
  /\ Len(repos) > CONCURRENCY
  /\ \A i \in 1..Len(repos) : HookListRequests(i) = 1 /\ calls[i][Len(calls[i])].done

\* C31: when every request that is issued is answered, syncWebhooks comes to
\* its end: it returns or throws, with or without an abort, and no worker is
\* left waiting.
C31_RunEnds == <>(Ended /\ \A w \in Workers : wpc[w] \in {"idle", "done"})

\* A run of more repositories than workers that ended after an abort which
\* cleared the queue.
C31_Witness ==
  /\ Ended
  /\ abortError # NoError
  /\ clearedAtAbort # {}
  /\ \A w \in Workers : wpc[w] = "done"

\* The repositories from the i-th on reconciled one at a time in input order
\* against the hooks hs, every request answered with a success: the three
\* lists after the last one.
RECURSIVE OneAtATime(_, _, _)
OneAtATime(i, hs, res) ==
  IF i > Len(repos) THEN res
  ELSE LET nm == NameOf(i)
           m == Matching(hs[nm])
       IN CASE repos[i].archived /\ m = NoHook -> OneAtATime(i + 1, hs, res)
            [] repos[i].archived /\ m # NoHook ->
                 OneAtATime(i + 1, [hs EXCEPT ![nm] = Removed(@, m.id)],
                            [res EXCEPT !.deleted = Append(@, nm)])
            [] ~repos[i].archived /\ m = NoHook ->
                 OneAtATime(i + 1, [hs EXCEPT ![nm] = Created(@)],
                            [res EXCEPT !.created = Append(@, nm)])
            [] OTHER -> OneAtATime(i + 1, hs, [res EXCEPT !.unchanged = Append(@, nm)])

SetOf(seq) == { seq[k] : k \in 1..Len(seq) }

\* A run whose listing and whose requests were all answered with a success.
NoRequestFailed == ListingSucceeded /\ \A i \in Items : CleanItem(i)

\* C32: for a listing of distinct names, a returned run in which no request
\* failed holds in created, deleted and unchanged, taken as sets, what
\* reconciling the repositories one at a time in input order gives, whatever
\* the order in which the workers' requests were answered.
C32_SameAsOneAtATime ==
  (Returned /\ NoRequestFailed /\ DistinctNames) =>
    LET seq == OneAtATime(1, hooks0, EmptyResult)
    IN /\ SetOf(result.created) = SetOf(seq.created)
       /\ SetOf(result.deleted) = SetOf(seq.deleted)
       /\ SetOf(result.unchanged) = SetOf(seq.unchanged)
       /\ result.errors = <<>>

\* A returned run without a failed request whose created list holds two
\* repositories in another order than the listing.
C32_Witness ==
  /\ Returned
  /\ NoRequestFailed
  /\ DistinctNames
  /\ Len(result.created) = 2
  /\ result.created # OneAtATime(1, hooks0, EmptyResult).created
  /\ result.deleted # <<>>
  /\ result.unchanged # <<>>

\* The items that were taken from the queue.
Dequeued == { i \in Items : calls[i] # <<>> }

\* The entries of the four lists, the "(rate-limited)" entry apart.
Entries ==
  Len(result.created) + Len(result.deleted) + Len(result.unchanged) +
    Len(result.errors) - Count(ErrorRepos, RateLimitedRepo)

\* 1 when the name stands in the list, 0 when it does not.
In(seq, nm) == IF Count(seq, nm) > 0 THEN 1 ELSE 0

\* An active repository stands in exactly one of created, unchanged and errors
\* and not in deleted; an archived one in at most one of deleted and errors
\* and not in created or unchanged.
PlacedByKind(i) ==
  LET nm == NameOf(i) IN
  IF repos[i].archived
  THEN /\ In(result.deleted, nm) + In(ErrorRepos, nm) <= 1
       /\ In(result.created, nm) + In(result.unchanged, nm) = 0
  ELSE /\ In(result.created, nm) + In(result.unchanged, nm) + In(ErrorRepos, nm) = 1
       /\ In(result.deleted, nm) = 0

RateLimitedItems == { i \in Items : \E k \in 1..2 : <<i, k>> \in RateLimitedCalls }

\* The repositories of the rate-limited items stand in none of the four lists,
\* and the returned result holds the "(rate-limited)" entry.
AbortedUnrecorded ==
  /\ \A i \in RateLimitedItems : Occurrences(NameOf(i)) = 0
  /\ (Returned /\ RateLimitedItems # {}) => Count(ErrorRepos, RateLimitedRepo) = 1

SyncReturned == listResponse # NoResponse /\ thrown = NoError /\ phase \in {"returned", "answered"}

\* syncWebhooks was called and has thrown.
SyncThrew == thrown # NoError

\* C35: once the endpoint has answered, the answer is 200 with status
\* "success" and the four lists of the result exactly when syncWebhooks
\* returned, whatever the result's errors list holds, and it is 500 with status
\* "error" exactly when syncWebhooks threw.
C35_SuccessWheneverReturned ==
  phase = "answered" =>
    /\ SyncReturned <=> answer.status = 200
    /\ SyncReturned => answer = Answer(200, "success", <<>>, result)
    /\ SyncThrew <=> answer.status = 500
    /\ SyncThrew => answer.kind = "error" /\ answer.result = EmptyResult
    /\ ~(SyncReturned /\ SyncThrew)

\* An answer 200 "success" whose errors list holds the "(rate-limited)" entry,
\* beside a repository that was recorded.
C35_Witness ==
  /\ phase = "answered"
  /\ answer.status = 200
  /\ answer.kind = "success"
  /\ \E k \in 1..Len(answer.result.errors) : answer.result.errors[k].repo = RateLimitedRepo
  /\ Len(answer.result.created) + Len(answer.result.deleted) + Len(answer.result.unchanged) > 0

\* C36: on a history that began with at most five entries, the history holds
\* at most five entries after every call; after a successful call the tone it
\* selected is the last entry; and the tone a call selects is one of the eight
\* patterns, and one the history does not hold at the call whenever the
\* history leaves a pattern unused.
C36_HistoryKeptAtFive ==
  /\ startLen <= HistoryLimit => Len(toneHistory) <= HistoryLimit
  /\ lastTone # NoTone =>
       toneHistory # <<>> /\ toneHistory[Len(toneHistory)] = lastTone
  /\ holoPc = "awaiting" =>
       /\ Includes(TONE_PATTERNS, selectedTone)
       /\ (\E k \in 1..Len(TONE_PATTERNS) : ~Includes(toneHistory, TONE_PATTERNS[k])) =>
            ~Includes(toneHistory, selectedTone)

\* A history that began with five foreign entries, now holding five tones
\* after five successful calls, with a sixth call in progress.
C36_Witness ==
  /\ startLen = HistoryLimit
  /\ Len(toneHistory) = HistoryLimit
  /\ \A k \in 1..Len(toneHistory) : Includes(TONE_PATTERNS, toneHistory[k])
  /\ toneHistory[Len(toneHistory)] = lastTone
  /\ holoPc = "awaiting"

====
